---- MODULE Spec2Model ----
(***************************************************************************)
(* The spectral calibration processor of python/spectral_processor.py:     *)
(* the SpectralProcessor object, its pipeline stages and process().        *)
(*                                                                         *)
(* Numbers.  A Python float is modelled as an exact rational [n, d] in     *)
(* lowest terms with d > 0; the float NaN is the pair with d = 0.  The     *)
(* comparisons follow IEEE: every comparison with NaN is false.            *)
(*                                                                         *)
(* Images.  The pixel work of OpenCV (thresholding, morphology, contours)  *)
(* is summarised by what it yields for an image: per colour name the size  *)
(* of the cleaned mask, the area and bounding box of its largest contour   *)
(* and the mean colour inside it, and the mean colour of each image        *)
(* corner.  Everything the processor computes from those numbers is        *)
(* modelled as the code computes it.                                       *)
(***************************************************************************)
EXTENDS Integers, Sequences, FiniteSets, TLC

VARIABLES
    proc,            \* the SpectralProcessor instance (its fields)
    phase,           \* "constructed" before process(), "processed" after
    force_analysis,  \* the argument of the process() call
    solver_fault,    \* whether the numerical solver failed in the last fit
    outcome,         \* what the last call returned or raised
    calls,           \* number of direct fit_correction_curves calls so far
    disk,            \* the files save_calibration wrote, and the clock
    server           \* the requests the Flask server is handling

vars == <<proc, phase, force_analysis, solver_fault, outcome, calls, disk, server>>

\* Bound on the direct fit_correction_curves(reference_data) calls a caller
\* makes on a processor after process() has returned.
MaxCalls == 1

----------------------------------------------------------------------------
(* Floats *)

Abs(i) == IF i < 0 THEN -i ELSE i

RECURSIVE GCD(_, _)
GCD(a, b) == IF b = 0 THEN a ELSE GCD(b, a % b)

NaN == [n |-> 0, d |-> 0]

\* the float n/d
Float(n, d) ==
    IF d = 0 THEN NaN
    ELSE LET g == GCD(Abs(n), Abs(d))
             s == IF d < 0 THEN -1 ELSE 1
         IN  [n |-> s * (n \div g), d |-> s * (d \div g)]

FromInt(i) == [n |-> i, d |-> 1]

IsNaN(x) == x.d = 0

Lt(a, b) == ~IsNaN(a) /\ ~IsNaN(b) /\ a.n * b.d < b.n * a.d
Gt(a, b) == Lt(b, a)
Le(a, b) == ~IsNaN(a) /\ ~IsNaN(b) /\ a.n * b.d <= b.n * a.d
Ge(a, b) == Le(b, a)

Sub(a, b) == IF IsNaN(a) \/ IsNaN(b) THEN NaN
             ELSE Float(a.n * b.d - b.n * a.d, a.d * b.d)
Add(a, b) == IF IsNaN(a) \/ IsNaN(b) THEN NaN
             ELSE Float(a.n * b.d + b.n * a.d, a.d * b.d)
Mul(a, b) == IF IsNaN(a) \/ IsNaN(b) THEN NaN
             ELSE Float(a.n * b.n, a.d * b.d)
\* a / b for a divisor that is not zero
Div(a, b) == IF IsNaN(a) \/ IsNaN(b) THEN NaN
             ELSE Float(a.n * b.d, a.d * b.n)

IsZero(x) == ~IsNaN(x) /\ x.n = 0

\* int(x) of a non-negative float: truncation
ToInt(x) == x.n \div x.d

\* Python's builtin max(a, b) and min(a, b): the first argument is kept
\* unless the second compares strictly greater (smaller)
py_max(a, b) == IF Gt(b, a) THEN b ELSE a
py_min(a, b) == IF Lt(b, a) THEN b ELSE a

\* Python's max(list) of a non-empty list
RECURSIVE py_max_list(_)
py_max_list(s) ==
    IF Len(s) = 1 THEN s[1]
    ELSE py_max(py_max_list(SubSeq(s, 1, Len(s) - 1)), s[Len(s)])

\* np.mean of a non-empty list of floats
RECURSIVE SumSeq(_)
SumSeq(s) == IF s = <<>> THEN FromInt(0) ELSE Add(s[1], SumSeq(Tail(s)))

np_mean(s) == IF s = <<>> THEN NaN ELSE Div(SumSeq(s), FromInt(Len(s)))

----------------------------------------------------------------------------
(* Class constants *)

\* the six colour names in the order COLOR_WAVELENGTHS lists them
COLOR_ORDER == <<"red", "yellow", "green", "cyan", "blue", "magenta">>

COLOR_NAMES == {COLOR_ORDER[i] : i \in 1..Len(COLOR_ORDER)}

\* variant: magenta filed under the wavelength of yellow
COLOR_WAVELENGTHS_shared ==
    [c \in COLOR_NAMES |->
        CASE c = "red"     -> 625
          [] c = "yellow"  -> 580
          [] c = "green"   -> 530
          [] c = "cyan"    -> 490
          [] c = "blue"    -> 460
          [] c = "magenta" -> 580]

COLOR_WAVELENGTHS ==
    [c \in COLOR_NAMES |->
        CASE c = "red"     -> 625
          [] c = "yellow"  -> 580
          [] c = "green"   -> 530
          [] c = "cyan"    -> 490
          [] c = "blue"    -> 460
          [] c = "magenta" -> 570]

\* the colour names HSV_RANGES has a band for
HSV_RANGES == {"red", "yellow", "green", "cyan", "blue", "magenta"}

CORNER_NAMES == {"top_left", "top_right", "bottom_left", "bottom_right"}

CORNER_ORDER == <<"top_left", "top_right", "bottom_left", "bottom_right">>

----------------------------------------------------------------------------
(* Images: what OpenCV yields for the bytes handed to the processor *)

\* a mean colour (b, g, r) given in halves of a pixel level
BGR(b2, g2, r2) == [b |-> Float(b2, 2), g |-> Float(g2, 2), r |-> Float(r2, 2)]

\* mean colour inside the largest contour of a well exposed patch
VIVID_MEAN ==
    [c \in COLOR_NAMES |->
        CASE c = "red"     -> BGR(20, 40, 461)
          [] c = "yellow"  -> BGR(40, 461, 480)
          [] c = "green"   -> BGR(80, 401, 60)
          [] c = "cyan"    -> BGR(461, 440, 20)
          [] c = "blue"    -> BGR(480, 61, 40)
          [] c = "magenta" -> BGR(421, 20, 440)]

\* the same patches in a dim photograph
DIM_MEAN ==
    [c \in COLOR_NAMES |->
        CASE c = "red"     -> BGR(0, 7, 180)
          [] c = "yellow"  -> BGR(4, 190, 201)
          [] c = "green"   -> BGR(18, 161, 8)
          [] c = "cyan"    -> BGR(181, 170, 0)
          [] c = "blue"    -> BGR(198, 18, 5)
          [] c = "magenta" -> BGR(168, 1, 176)]

EXPOSURES == {"vivid", "dim"}

\* what the mask of a colour without patch holds: nothing, or only specks
\* (a mask of 100 or more pixels whose largest contour is below 100)
CLUTTER == {"none", "speck"}

\* what the four image corners show
BACKDROPS == {"black", "shadow", "bright"}

\* image sizes (width, height): one narrower than 10 pixels
DIMENSIONS == {<<200, 100>>, <<9, 400>>}

\* A decoded image is named by what it shows: its size, the colours that
\* have a patch, the exposure, the clutter and the backdrop.
DecodedImages ==
    [width_height : DIMENSIONS, present : SUBSET COLOR_NAMES, clutter : CLUTTER,
     exposure : EXPOSURES, backdrop : BACKDROPS]

\* cv2.countNonZero(mask) of the cleaned mask of a colour
cv2_countNonZero(image, c) ==
    IF c \in image.present THEN 420
    ELSE IF image.clutter = "speck" THEN 130 ELSE 40

\* cv2.contourArea of the largest contour of the mask
cv2_contourArea(image, c) ==
    IF c \in image.present THEN Float(751, 2) ELSE Float(199, 2)

\* cv2.boundingRect of the largest contour
cv2_boundingRect(image, c) ==
    LET i == CHOOSE k \in 1..Len(COLOR_ORDER) : COLOR_ORDER[k] = c
    IN  IF image.width_height[1] < 10
        THEN [x |-> 0, y |-> 60 * i - 55, width |-> 9, height |-> 51]
        ELSE [x |-> 25 * i, y |-> 12, width |-> 21, height |-> 20]

\* cv2.mean(image, mask=region_mask)[:3]
cv2_mean(image, c) ==
    IF image.exposure = "vivid" THEN VIVID_MEAN[c] ELSE DIM_MEAN[c]

\* mean colour (b, g, r) of a non-empty rectangle at an image corner
CornerMeans(image, k) ==
    CASE image.backdrop = "black"  -> BGR(0, 0, 0)
      [] image.backdrop = "bright" -> BGR(500, 500, 500)
      [] image.backdrop = "shadow" ->
            CASE k = "top_left"     -> BGR(24, 20, 16)
              [] k = "top_right"    -> BGR(24, 20, 20)
              [] k = "bottom_left"  -> BGR(24, 22, 19)
              [] k = "bottom_right" -> BGR(24, 18, 21)

\* image_data as the callers pass it: encoded bytes that decode to an image,
\* bytes that do not decode, or a str (a file path) instead of bytes
ImageData ==
    { [kind |-> "bytes", decoded |-> <<img>>] : img \in DecodedImages }
    \cup { [kind |-> "bytes", decoded |-> <<>>], [kind |-> "str", decoded |-> <<>>] }

----------------------------------------------------------------------------
(* SpectralProcessor *)

EMPTY == <<>>      \* the empty dict {}

None == <<>>       \* None, for a field that later holds <<value>>

__init__(image_data) ==
    [image_data |-> image_data,
     image |-> None,
     hsv_image |-> None,
     height |-> 0,
     width |-> 0,
     color_regions |-> EMPTY,
     black_regions |-> EMPTY,
     raw_intensities |-> EMPTY,
     corrected_intensities |-> EMPTY,
     correction_curves |-> EMPTY,
     calibration_data |-> EMPTY,
     trace |-> <<>>]        \* the methods called on the instance, in order

Called(p, method) == [p EXCEPT !.trace = Append(@, method)]

\* np.frombuffer accepts bytes and raises TypeError for a str
np_frombuffer_raises(image_data) == image_data.kind # "bytes"

\* cv2.imdecode: the image, or None for bytes that are not an image
cv2_imdecode(image_data) == image_data.decoded

load_image(p0) ==
    LET p == Called(p0, "load_image") IN
    IF np_frombuffer_raises(p.image_data)
    THEN [p |-> p, ret |-> FALSE]
    ELSE LET image == cv2_imdecode(p.image_data) IN
         IF image = None
         THEN [p |-> [p EXCEPT !.image = None], ret |-> FALSE]
         ELSE [p |-> [p EXCEPT !.image = image,
                               !.height = image[1].width_height[2],
                               !.width = image[1].width_height[1],
                               !.hsv_image = image],
               ret |-> TRUE]

\* the cleaned mask of a colour, None for a colour without HSV band
_create_color_mask(p, color_name) ==
    IF color_name \notin HSV_RANGES THEN None
    ELSE <<[of |-> p.hsv_image[1], color |-> color_name]>>

\* cv2.findContours finds a contour in every mask that is not empty
HasContours(mask) == cv2_countNonZero(mask.of, mask.color) > 0

\* one iteration of the loop of extract_color_regions
ExtractOne(p, color_name) ==
    LET mask == _create_color_mask(p, color_name) IN
    IF mask = None \/ cv2_countNonZero(mask[1].of, mask[1].color) < 100 THEN p
    ELSE IF ~HasContours(mask[1]) THEN p
    ELSE LET area == cv2_contourArea(mask[1].of, mask[1].color)
             box == cv2_boundingRect(mask[1].of, mask[1].color)
             avg == cv2_mean(p.image[1], color_name)
         IN  IF Lt(area, FromInt(100)) THEN p
             ELSE [p EXCEPT !.color_regions =
                     [c \in (DOMAIN @) \cup {color_name} |->
                        IF c = color_name
                        THEN [wavelength |-> COLOR_WAVELENGTHS[color_name],
                              rgb |-> [r |-> ToInt(avg.r), g |-> ToInt(avg.g),
                                       b |-> ToInt(avg.b)],
                              bgr |-> [b |-> ToInt(avg.b), g |-> ToInt(avg.g),
                                       r |-> ToInt(avg.r)],
                              center |-> [x |-> box.x + box.width \div 2,
                                          y |-> box.y + box.height \div 2],
                              area |-> ToInt(area),
                              bbox |-> box]
                        ELSE @[c]]]

RECURSIVE ExtractLoop(_, _)
ExtractLoop(p, names) ==
    IF names = <<>> THEN p
    ELSE ExtractLoop(ExtractOne(p, Head(names)), Tail(names))

\* variants: a threshold one lower, one higher
MinColorsLow == 4 - 1
MinColorsHigh == 4 + 1

\* the least number of colours a calibration needs
MinColors == 4

\* return num_colors >= 4
ReturnEnough(p) ==
    [p |-> p, ret |-> Cardinality(DOMAIN p.color_regions) >= MinColors]

\* variant: a processor that holds regions does not extract again
extract_color_regions_once(p0) ==
    IF p0.color_regions # EMPTY
    THEN [p |-> Called(p0, "extract_color_regions"), ret |-> FALSE]
    ELSE ReturnEnough(ExtractLoop(Called(p0, "extract_color_regions"), COLOR_ORDER))

extract_color_regions(p0) ==
    ReturnEnough(ExtractLoop(Called(p0, "extract_color_regions"), COLOR_ORDER))

\* the mean colour of image[y:y+h, x:x+w]; the mean of an empty slice is NaN
RegionMean(image, corner_name, w, h) ==
    IF w = 0 \/ h = 0 THEN [b |-> NaN, g |-> NaN, r |-> NaN]
    ELSE CornerMeans(image, corner_name)

\* variant: the tenth rounded up
corner_size_ceil(side) == (side + 9) \div 10

\* self.width // 10 and self.height // 10
corner_size(side) == side \div 10

extract_black_corners(p0) ==
    LET p == Called(p0, "extract_black_corners")
        corner_size_w == corner_size(p.width)
        corner_size_h == corner_size(p.height)
        corners ==
            [k \in CORNER_NAMES |->
                CASE k = "top_left" ->
                       <<0, 0, corner_size_w, corner_size_h>>
                  [] k = "top_right" ->
                       <<p.width - corner_size_w, 0, corner_size_w, corner_size_h>>
                  [] k = "bottom_left" ->
                       <<0, p.height - corner_size_h, corner_size_w, corner_size_h>>
                  [] k = "bottom_right" ->
                       <<p.width - corner_size_w, p.height - corner_size_h,
                         corner_size_w, corner_size_h>>]
        Sample(k) ==
            LET avg == RegionMean(p.image[1], k, corners[k][3], corners[k][4])
            IN  [rgb |-> [r |-> avg.r, g |-> avg.g, b |-> avg.b],
                 bgr |-> [b |-> avg.b, g |-> avg.g, r |-> avg.r],
                 position |-> [x |-> corners[k][1], y |-> corners[k][2],
                               width |-> corners[k][3], height |-> corners[k][4]]]
    IN  [p |-> [p EXCEPT !.black_regions =
                    [k \in (DOMAIN @) \cup CORNER_NAMES |-> Sample(k)]],
         ret |-> TRUE]

\* the values of a dict with names as keys, in the order `order` lists them
RECURSIVE ValuesInOrder(_, _)
ValuesInOrder(dict, order) ==
    IF order = <<>> THEN <<>>
    ELSE IF Head(order) \in DOMAIN dict
         THEN <<dict[Head(order)]>> \o ValuesInOrder(dict, Tail(order))
         ELSE ValuesInOrder(dict, Tail(order))

calculate_baseline(p) ==
    LET corners == ValuesInOrder(p.black_regions, CORNER_ORDER)
        r_values == [i \in 1..Len(corners) |-> corners[i].rgb.r]
        g_values == [i \in 1..Len(corners) |-> corners[i].rgb.g]
        b_values == [i \in 1..Len(corners) |-> corners[i].rgb.b]
    IN  <<np_mean(r_values), np_mean(g_values), np_mean(b_values)>>

\* variant: the subtraction without clamp
subtract_unclamped(value, baseline) == Sub(FromInt(value), baseline)

\* max(0, value - baseline) of perform_shadow_correction
subtract_baseline(value, baseline) ==
    py_max(FromInt(0), Sub(FromInt(value), baseline))

\* dict[key] = value
SetItem(dict, key, value) ==
    [k \in (DOMAIN dict) \cup {key} |-> IF k = key THEN value ELSE dict[k]]

\* one iteration of the loop of perform_shadow_correction
CorrectOne(p, color_name, baseline) ==
    LET region == p.color_regions[color_name]
        wavelength == region.wavelength
        rgb == region.rgb
        corrected == [r |-> subtract_baseline(rgb.r, baseline[1]),
                      g |-> subtract_baseline(rgb.g, baseline[2]),
                      b |-> subtract_baseline(rgb.b, baseline[3]),
                      color |-> color_name]
    IN  [p EXCEPT
           !.raw_intensities =
               SetItem(@, wavelength,
                       [r |-> rgb.r, g |-> rgb.g, b |-> rgb.b, color |-> color_name]),
           !.corrected_intensities = SetItem(@, wavelength, corrected)]

RECURSIVE CorrectLoop(_, _, _)
CorrectLoop(p, names, baseline) ==
    IF names = <<>> THEN p
    ELSE IF Head(names) \in DOMAIN p.color_regions
         THEN CorrectLoop(CorrectOne(p, Head(names), baseline), Tail(names), baseline)
         ELSE CorrectLoop(p, Tail(names), baseline)

\* return self.corrected_intensities
ReturnIntensities(p) == [p |-> p, ret |-> p.corrected_intensities]

perform_shadow_correction(p0) ==
    ReturnIntensities(CorrectLoop(Called(p0, "perform_shadow_correction"),
                                  COLOR_ORDER, calculate_baseline(p0)))

----------------------------------------------------------------------------
(* fit_correction_curves *)

\* sorted(keys): the keys in ascending order
RECURSIVE sorted(_)
sorted(S) ==
    IF S = {} THEN <<>>
    ELSE LET m == CHOOSE x \in S : \A y \in S : x <= y
         IN  <<m>> \o sorted(S \ {m})

\* variant: the top step of the red response begins above 580
BuiltinRed_above(wl) ==
    IF wl > 580 THEN 10 ELSE IF wl >= 530 THEN 3 ELSE IF wl >= 490 THEN 1 ELSE 2

\* the built-in reference response at a wavelength, in tenths
BuiltinRed(wl) ==
    IF wl >= 580 THEN 10 ELSE IF wl >= 530 THEN 3 ELSE IF wl >= 490 THEN 1 ELSE 2

BuiltinGreen(wl) ==
    IF wl = 530 THEN 10 ELSE IF wl \in {490, 570, 580} THEN 6
    ELSE IF wl = 625 THEN 2 ELSE 3

BuiltinBlue(wl) ==
    IF wl <= 490 THEN 10 ELSE IF wl = 530 THEN 4
    ELSE IF wl \in {570, 580} THEN 3 ELSE 1

BuiltinReference(wavelengths) ==
    [wl \in {wavelengths[i] : i \in 1..Len(wavelengths)} |->
        [r |-> Float(BuiltinRed(wl), 10),
         g |-> Float(BuiltinGreen(wl), 10),
         b |-> Float(BuiltinBlue(wl), 10)]]

\* reference_data.get(wl, {'r': 1.0, 'g': 1.0, 'b': 1.0})
ReferenceGet(reference_data, wl) ==
    IF wl \in DOMAIN reference_data THEN reference_data[wl]
    ELSE [r |-> FromInt(1), g |-> FromInt(1), b |-> FromInt(1)]

\* max(xs) if max(xs) > 0 else 1
ChannelMax(xs) ==
    IF Gt(py_max_list(xs), FromInt(0)) THEN py_max_list(xs) ELSE FromInt(1)

normalize(xs) == [i \in 1..Len(xs) |-> Div(xs[i], ChannelMax(xs))]

MIN_THRESHOLD == Float(1, 100)

\* variant: the divisor without floor
floor_divisor_none(norm) == norm

\* the divisor max(norm, MIN_THRESHOLD) of a correction factor
floor_divisor(norm) == py_max(norm, MIN_THRESHOLD)

\* variant: the upper limit only
clip_upper(corr) == py_min(FromInt(10), corr)

\* max(0.1, min(10.0, corr))
clip(corr) == py_max(Float(1, 10), py_min(FromInt(10), corr))

correction_factor(ref, norm) == clip(Div(ref, floor_divisor(norm)))

\* np.polyfit(x, y, deg): the coefficients, a function of the data points
np_polyfit(x, y, deg) == [fit |-> "polyfit", x |-> x, y |-> y, deg |-> deg]

\* variant: a spline that accepts any number of points
SplineAccepts(x, k) == FALSE

\* UnivariateSpline(x, y, s, k) needs more than k points
SplineRaises(x, k) == Len(x) <= k

ValueError_first == <<"Must", "perform", "shadow", "correction", "first">>
ZeroDivisionError == <<"float", "division", "by", "zero">>
SplineError == <<"(m>k)", "failed", "for", "hidden", "m">>
LinAlgError == <<"SVD", "did", "not", "converge", "in", "Linear", "Least", "Squares">>

Raise(p, exc) == [p |-> p, raised |-> TRUE, exc |-> exc, ret |-> EMPTY]
Return(p, ret) == [p |-> p, raised |-> FALSE, exc |-> <<>>, ret |-> ret]

\* the shadow-corrected intensities of a channel, by ascending wavelength
Intensities(p, wavelengths, ch) ==
    [i \in 1..Len(wavelengths) |-> p.corrected_intensities[wavelengths[i]][ch]]

\* the correction factors of a channel
Corrections(wavelengths, reference_data, normalized, ch) ==
    [i \in 1..Len(wavelengths) |->
        correction_factor(ReferenceGet(reference_data, wavelengths[i])[ch],
                          normalized[i])]

\* normalized x correction, element by element
CorrectedFinal(normalized, corrections) ==
    [i \in 1..Len(normalized) |-> Mul(normalized[i], corrections[i])]

\* a correction factor divides by zero
ZeroDivisor(normalized) ==
    \E i \in 1..Len(normalized) : IsZero(floor_divisor(normalized[i]))

\* return self.correction_curves
ReturnCurves(p) == Return(p, p.correction_curves)

\* the try block: the polynomial and spline fits, and the stored curves
FitCurves(p, wavelengths, reference_data, norm, corr, fault) ==
    IF fault THEN Raise(p, LinAlgError)
    ELSE IF SplineRaises(wavelengths, 3) THEN Raise(p, SplineError)
    ELSE ReturnCurves(
           [p EXCEPT !.correction_curves =
              [polynomial |-> [ch \in {"r", "g", "b"} |->
                                 np_polyfit(wavelengths, corr[ch], 3)],
               data_points |-> [wavelengths |-> wavelengths,
                                r_corrections |-> corr.r,
                                g_corrections |-> corr.g,
                                b_corrections |-> corr.b],
               raw_normalized |-> [wavelengths |-> wavelengths,
                                   r |-> norm.r, g |-> norm.g, b |-> norm.b],
               final_corrected |-> [wavelengths |-> wavelengths,
                                    r |-> CorrectedFinal(norm.r, corr.r),
                                    g |-> CorrectedFinal(norm.g, corr.g),
                                    b |-> CorrectedFinal(norm.b, corr.b)],
               reference_values |-> reference_data]])

\* the correction factors of the normalized intensities
FitFactors(p, wavelengths, reference_data, norm, fault) ==
    IF \E ch \in {"r", "g", "b"} : ZeroDivisor(norm[ch])
    THEN Raise(p, ZeroDivisionError)
    ELSE FitCurves(p, wavelengths, reference_data, norm,
                   [ch \in {"r", "g", "b"} |->
                      Corrections(wavelengths, reference_data, norm[ch], ch)],
                   fault)

\* the fit over the sorted wavelengths
FitSorted(p, wavelengths, reference_arg, fault) ==
    FitFactors(p, wavelengths,
               IF reference_arg # EMPTY THEN reference_arg
               ELSE BuiltinReference(wavelengths),
               [ch \in {"r", "g", "b"} |->
                  normalize(Intensities(p, wavelengths, ch))],
               fault)

\* fault: the numerical solver under np.polyfit fails in this call
fit_correction_curves(p0, reference_arg, fault) ==
    IF p0.corrected_intensities = EMPTY
    THEN Raise(Called(p0, "fit_correction_curves"), ValueError_first)
    ELSE FitSorted(Called(p0, "fit_correction_curves"),
                   sorted(DOMAIN p0.corrected_intensities), reference_arg, fault)

----------------------------------------------------------------------------
(* process *)

\* variant: the text the server uses for its own decoding
LOAD_ERROR_decode == <<"Failed", "to", "decode", "image">>

\* the texts of the results, word by word
LOAD_ERROR == <<"Failed", "to", "load", "image">>

NO_COLORS_ERROR ==
    <<"No", "distinct", "colors", "detected", ".", "This", "system", "looks",
      "for", "red", ",", "yellow", ",", "green", ",", "cyan", ",", "blue", ",",
      "or", "magenta", "colors", ".", "Try", "taking", "a", "photo", "of", "a",
      "colorful", "object", "like", "a", "phone", "case", ",", "book", "cover",
      ",", "or", "printed", "color", "chart", ".">>

CORNERS_ERROR == <<"Failed", "to", "extract", "black", "corner", "regions">>

FIT_ERROR_PREFIX == <<"Failed", "to", "fit", "correction", "curves", ":">>

\* {str(k): v for k, v in dict.items()}
StrKeys(dict) ==
    [s \in {ToString(k) : k \in DOMAIN dict} |->
        dict[CHOOSE k \in DOMAIN dict : ToString(k) = s]]

\* only numpy scalars and arrays are converted, to the same numbers
convert_to_json_serializable(obj) == obj

\* variant: the intensities are computed for the analysis result too
ReturnAnalysisCorrected(p, message) ==
    Return(perform_shadow_correction(extract_black_corners(p).p).p,
           [success |-> TRUE,
            mode |-> "analysis_only",
            color_regions |-> p.color_regions,
            num_colors_detected |-> Cardinality(DOMAIN p.color_regions),
            message |-> message])

\* process() returns the analysis_only result
ReturnAnalysis(p, message) ==
    Return(p, [success |-> TRUE,
               mode |-> "analysis_only",
               color_regions |-> p.color_regions,
               num_colors_detected |-> Cardinality(DOMAIN p.color_regions),
               message |-> message])

\* variant: no except clause, the exception leaves process()
fit_reraise(p, exc) == Raise(p, exc)

\* the except clause around fit_correction_curves in process()
fit_except(p, exc) ==
    Return(p, [success |-> FALSE, error |-> FIT_ERROR_PREFIX \o exc])

\* variants: the guard without the count, and no guard at all
forced_unguarded(force, p) == force
forced_ignored(force, p) == FALSE

\* variant: the guard with >= 0 where the code has > 0
forced_nonnegative(force, p) == force /\ Cardinality(DOMAIN p.color_regions) >= 0

\* process() returns analysis_only at once for a forced analysis
forced(force, p) == force /\ Cardinality(DOMAIN p.color_regions) > 0

\* the least and the greatest key
MinKey(keys) == CHOOSE x \in keys : \A y \in keys : x <= y
MaxKey(keys) == CHOOSE x \in keys : \A y \in keys : x >= y

\* the result of a full calibration; the clock is not modelled, the
\* timestamp is the same token in every result
BuildResult(p, baseline) ==
    [success |-> TRUE,
     timestamp |-> "now",
     image_info |-> [width |-> p.width, height |-> p.height],
     color_regions |-> p.color_regions,
     black_corners |-> p.black_regions,
     baseline |-> [r |-> baseline[1], g |-> baseline[2], b |-> baseline[3]],
     raw_intensities |-> StrKeys(p.raw_intensities),
     corrected_intensities |-> StrKeys(p.corrected_intensities),
     correction_curves |-> p.correction_curves,
     statistics |->
         [num_colors_detected |-> Cardinality(DOMAIN p.color_regions),
          num_black_corners |-> Cardinality(DOMAIN p.black_regions),
          wavelength_range |->
              IF p.corrected_intensities # EMPTY
              THEN <<MinKey(DOMAIN p.corrected_intensities),
                     MaxKey(DOMAIN p.corrected_intensities)>>
              ELSE <<0, 0>>]]

\* process() after fit_correction_curves returned or raised
AfterFit(f) ==
    IF f.raised THEN fit_except(f.p, f.exc)
    ELSE Return(f.p, convert_to_json_serializable(
                         BuildResult(f.p, calculate_baseline(f.p))))

\* process() after extract_black_corners
AfterCorners(c, fault) ==
    IF ~c.ret THEN Return(c.p, [success |-> FALSE, error |-> CORNERS_ERROR])
    ELSE AfterFit(fit_correction_curves(perform_shadow_correction(c.p).p,
                                        EMPTY, fault))

\* the full calibration of process(), after the region count was accepted
Calibrate(p, fault) == AfterCorners(extract_black_corners(p), fault)

\* process() after extract_color_regions
AfterRegions(e, force, fault) ==
    IF forced(force, e.p)
    THEN ReturnAnalysis(e.p,
             <<"Analysis", "mode", ":", "detected",
               ToString(Cardinality(DOMAIN e.p.color_regions)),
               "color", "region(s)">>)
    ELSE IF ~e.ret
    THEN IF Cardinality(DOMAIN e.p.color_regions) > 0
         THEN ReturnAnalysis(e.p,
                  <<"Detected", ToString(Cardinality(DOMAIN e.p.color_regions)),
                    "color", "region(s)", "-",
                    "insufficient", "for", "calibration", "but",
                    "available", "for", "analysis">>)
         ELSE Return(e.p, [success |-> FALSE, error |-> NO_COLORS_ERROR])
    ELSE Calibrate(e.p, fault)

\* process() after load_image
AfterLoad(l, force, fault) ==
    IF ~l.ret THEN Return(l.p, [success |-> FALSE, error |-> LOAD_ERROR])
    ELSE AfterRegions(extract_color_regions(l.p), force, fault)

process(p0, force, fault) ==
    AfterLoad(load_image(Called(p0, "process")), force, fault)

----------------------------------------------------------------------------
(* The callers *)

AllWavelengths == {COLOR_WAVELENGTHS[c] : c \in COLOR_NAMES}

\* the values a caller's reference table holds
ReferenceValues == {Float(-1, 2), Float(1, 20), FromInt(1)}

\* reference_data of a caller: none, one value for every wavelength and
\* channel, or a table that covers the red wavelength only
CallerReferences ==
    {EMPTY}
    \cup { [wl \in AllWavelengths |-> [r |-> v, g |-> v, b |-> v]] :
             v \in ReferenceValues }
    \cup { [wl \in {625} |-> [r |-> Float(1, 20), g |-> FromInt(50),
                              b |-> Float(-1, 2)]] }

NoOutcome == [op |-> "none", raised |-> FALSE, exc |-> <<>>, value |-> EMPTY]

\* no file written yet; the clock that datetime.now() reads
NoFiles == [now |-> 0, files |-> EMPTY]

\* no request in the server
NoRequests == [requests |-> EMPTY, instances |-> EMPTY]

\* one processor in the hands of its caller, before any call
Fresh ==
    /\ phase = "constructed"
    /\ force_analysis = FALSE
    /\ solver_fault = FALSE
    /\ outcome = NoOutcome
    /\ calls = 0
    /\ disk = NoFiles
    /\ server = NoRequests

Init ==
    /\ proc \in {__init__(d) : d \in ImageData}
    /\ Fresh

\* the call of a method ends: the processor as the method left it, and
\* what the caller gets
Finish(op, r) ==
    /\ proc' = r.p
    /\ outcome' = [op |-> op, raised |-> r.raised, exc |-> r.exc, value |-> r.ret]

\* result = processor.process(force_analysis=...) on the new processor
Process(force, fault) ==
    /\ phase = "constructed"
    /\ Finish("process", process(proc, force, fault))
    /\ phase' = "processed"
    /\ force_analysis' = force
    /\ solver_fault' = fault
    /\ UNCHANGED <<calls, disk, server>>

\* processor.fit_correction_curves(reference_data), called by the owner of
\* a processor whose process() has returned
FitCorrectionCurves(reference_data, fault) ==
    /\ phase = "processed"
    /\ calls < MaxCalls
    /\ Finish("fit_correction_curves",
              fit_correction_curves(proc, reference_data, fault))
    /\ solver_fault' = fault
    /\ calls' = calls + 1
    /\ UNCHANGED <<phase, force_analysis, disk, server>>

\* the numerical solver works
Next ==
    \/ \E force \in BOOLEAN : Process(force, FALSE)
    \/ \E ref \in CallerReferences : FitCorrectionCurves(ref, FALSE)

Spec == Init /\ [][Next]_vars

\* the numerical solver may fail in any fit
NextFault ==
    \/ \E force \in BOOLEAN, fault \in BOOLEAN : Process(force, fault)
    \/ \E ref \in CallerReferences, fault \in BOOLEAN :
          FitCorrectionCurves(ref, fault)

SpecFault == Init /\ [][NextFault]_vars

----------------------------------------------------------------------------
(* Properties of process() *)

\* the state is the one process() returned in
AfterProcess == outcome.op = "process"

Result == outcome.value

\* the image was decoded by load_image
ImageLoaded == proc.image # None

NumRegions == Cardinality(DOMAIN proc.color_regions)

Has(dict, key) == key \in DOMAIN dict

IsAnalysisOnly(result) ==
    /\ Has(result, "success") /\ result.success = TRUE
    /\ Has(result, "mode") /\ result.mode = "analysis_only"

IsFullCalibration(result) ==
    /\ Has(result, "success") /\ result.success = TRUE
    /\ ~Has(result, "mode")
    /\ Has(result, "correction_curves")
    /\ result.correction_curves # EMPTY

IsFailure(result) ==
    /\ Has(result, "success") /\ result.success = FALSE
    /\ Has(result, "error")

\* the text holds the words, in a row
Contains(text, words) ==
    \E i \in 0..(Len(text) - Len(words)) :
        SubSeq(text, i + 1, i + Len(words)) = words

\* the method was called on the processor
WasCalled(method) == \E i \in 1..Len(proc.trace) : proc.trace[i] = method

\* C1: process() without force_analysis on an image that loads and shows 1, 2
\* or 3 colour regions returns success = true, mode = 'analysis_only', the
\* detected regions as color_regions and their number as num_colors_detected.
C1_AnalysisOnlyBelowFour ==
    (AfterProcess /\ ~force_analysis /\ ImageLoaded /\ NumRegions \in 1..3)
    => /\ ~outcome.raised
       /\ IsAnalysisOnly(Result)
       /\ Result.color_regions = proc.color_regions
       /\ Result.num_colors_detected = NumRegions

\* a red and a green patch alone: analysis_only with 2 colours
C1_Witness ==
    /\ AfterProcess /\ ~force_analysis
    /\ DOMAIN proc.color_regions = {"red", "green"}
    /\ IsAnalysisOnly(Result)
    /\ Result.num_colors_detected = 2

\* three regions without force_analysis: the upper end of C1
C1_WitnessThree ==
    /\ AfterProcess /\ ~force_analysis /\ NumRegions = 3
    /\ IsAnalysisOnly(Result)

\* C2: process() on an image that loads and shows no colour region returns
\* success = false with an error that says no distinct colors were detected
\* and names red, yellow, green, cyan, blue and magenta; no corner extraction,
\* shadow correction or curve fitting is performed.
C2_NoColorsFails ==
    (AfterProcess /\ ImageLoaded /\ NumRegions = 0)
    => /\ ~outcome.raised
       /\ IsFailure(Result)
       /\ Contains(Result.error, <<"No", "distinct", "colors", "detected">>)
       /\ \A c \in COLOR_NAMES : Contains(Result.error, <<c>>)
       /\ ~WasCalled("extract_black_corners")
       /\ ~WasCalled("perform_shadow_correction")
       /\ ~WasCalled("fit_correction_curves")
       /\ proc.black_regions = EMPTY
       /\ proc.corrected_intensities = EMPTY
       /\ proc.correction_curves = EMPTY

\* no region, and the caller asked for the analysis
C2_Witness ==
    /\ AfterProcess /\ ImageLoaded /\ NumRegions = 0 /\ force_analysis
    /\ IsFailure(Result)

PipelineTrace ==
    <<"process", "load_image", "extract_color_regions", "extract_black_corners",
      "perform_shadow_correction", "fit_correction_curves">>

\* C3: process() without force_analysis on 4, 5 or 6 detected regions runs
\* corner extraction, shadow correction and curve fitting in that order and
\* ends in the full calibration result, or, when the fit raises, in a failure
\* whose error holds the message of the exception; never in analysis_only.
C3_FullCalibrationFromFour ==
    (AfterProcess /\ ~force_analysis /\ NumRegions \in 4..6)
    => /\ proc.trace = PipelineTrace
       /\ ~outcome.raised
       /\ ~Has(Result, "mode")
       /\ IF solver_fault
          THEN /\ IsFailure(Result)
               /\ Contains(Result.error, LinAlgError)
          ELSE /\ IsFullCalibration(Result)
               /\ Result.correction_curves = proc.correction_curves

\* exactly four regions: the boundary, with a full calibration
C3_Witness ==
    /\ AfterProcess /\ ~force_analysis /\ NumRegions = 4
    /\ IsFullCalibration(Result)

\* four or more regions and a fit that raised
C3_WitnessFitRaised ==
    /\ AfterProcess /\ ~force_analysis /\ NumRegions >= 4 /\ solver_fault
    /\ IsFailure(Result)

\* C4: process() with force_analysis on 4 or more detected regions returns the
\* analysis_only result with their number, not the full calibration.
C4_ForcedAnalysis ==
    (AfterProcess /\ force_analysis /\ NumRegions >= 4)
    => /\ ~outcome.raised
       /\ IsAnalysisOnly(Result)
       /\ Result.num_colors_detected = NumRegions
       /\ ~IsFullCalibration(Result)
       /\ ~Has(Result, "correction_curves")

\* all six regions and force_analysis
C4_Witness ==
    /\ AfterProcess /\ force_analysis /\ NumRegions = 6
    /\ IsAnalysisOnly(Result)

Undecodable ==
    proc.image_data.kind # "bytes" \/ proc.image_data.decoded = None

\* C6: for image data that cannot be decoded process() returns success = false
\* with the error 'Failed to load image' and runs no further stage:
\* color_regions and the other fields of the run stay empty.
C6_LoadFailure ==
    (AfterProcess /\ Undecodable)
    => /\ ~outcome.raised
       /\ IsFailure(Result)
       /\ Result.error = <<"Failed", "to", "load", "image">>
       /\ proc.trace = <<"process", "load_image">>
       /\ proc.image = None
       /\ proc.color_regions = EMPTY
       /\ proc.black_regions = EMPTY
       /\ proc.raw_intensities = EMPTY
       /\ proc.corrected_intensities = EMPTY
       /\ proc.correction_curves = EMPTY

\* bytes that are no image
C6_Witness ==
    /\ AfterProcess /\ proc.image_data.kind = "bytes"
    /\ proc.image_data.decoded = None
    /\ IsFailure(Result)

\* C7: every call of process() returns a result with a boolean success flag;
\* no failure of a stage leaves process() as an exception.
C7_AlwaysStructuredResult ==
    AfterProcess
    => /\ ~outcome.raised
       /\ Has(Result, "success")
       /\ Result.success \in BOOLEAN

\* the fit raised inside process(), and process() returned a failure
C7_Witness ==
    /\ AfterProcess /\ solver_fault /\ WasCalled("fit_correction_curves")
    /\ ~outcome.raised
    /\ IsFailure(Result)

----------------------------------------------------------------------------
(* Properties of the correction factors and of the shadow correction *)

Curves == proc.correction_curves

CHANNELS == {"r", "g", "b"}

\* the stored correction factor, normalized value and reference value of a
\* channel at the i-th wavelength
Factor(ch, i) ==
    CASE ch = "r" -> Curves.data_points.r_corrections[i]
      [] ch = "g" -> Curves.data_points.g_corrections[i]
      [] ch = "b" -> Curves.data_points.b_corrections[i]

Normalized(ch, i) == Curves.raw_normalized[ch][i]

ReferenceAt(ch, i) ==
    LET wl == Curves.data_points.wavelengths[i]
        refs == Curves.reference_values
    IN  IF wl \in DOMAIN refs THEN refs[wl][ch] ELSE FromInt(1)

Points == 1..Len(Curves.data_points.wavelengths)

Tenth == Float(1, 10)
Ten == FromInt(10)
Hundredth == Float(1, 100)

\* C8: every correction factor stored in correction_curves.data_points lies
\* in the closed range [0.1, 10.0], for the built-in reference values and for
\* the ones a caller supplies.
C8_FactorsClipped ==
    Curves # EMPTY
    => \A ch \in CHANNELS : \A i \in Points :
          /\ Le(Tenth, Factor(ch, i))
          /\ Le(Factor(ch, i), Ten)

\* curves fitted from a caller's table, with a factor at each end of the range
C8_Witness ==
    /\ outcome.op = "fit_correction_curves" /\ ~outcome.raised
    /\ Curves.reference_values \in CallerReferences
    /\ \E ch \in CHANNELS : \E i \in Points : Factor(ch, i) = Tenth
    /\ \E ch \in CHANNELS : \E i \in Points : Factor(ch, i) = Ten

\* C9: each stored factor is reference / max(normalized, 0.01), clipped to
\* [0.1, 10.0]; for a normalized value of 0 it is reference / 0.01 clipped,
\* and no fit ends in a division by zero.
C9_FactorFormula ==
    /\ outcome.raised => outcome.exc # ZeroDivisionError
    /\ Curves # EMPTY
       => \A ch \in CHANNELS : \A i \in Points :
            LET f == Factor(ch, i)
                ref == ReferenceAt(ch, i)
                norm == Normalized(ch, i)
                divisor == IF Lt(norm, Hundredth) THEN Hundredth ELSE norm
            IN  /\ \/ f = Ten /\ Ge(ref, Mul(Ten, divisor))
                   \/ f = Tenth /\ Le(ref, Mul(Tenth, divisor))
                   \/ Mul(f, divisor) = ref /\ Le(Tenth, f) /\ Le(f, Ten)
                /\ IsZero(norm) =>
                     \/ f = Ten /\ Ge(Mul(ref, FromInt(100)), Ten)
                     \/ f = Tenth /\ Le(Mul(ref, FromInt(100)), Tenth)
                     \/ f = Mul(ref, FromInt(100))

\* a normalized value of 0 with the reference 0.05: the factor is 5
C9_Witness ==
    /\ Curves # EMPTY
    /\ \E ch \in CHANNELS : \E i \in Points :
          /\ IsZero(Normalized(ch, i))
          /\ ReferenceAt(ch, i) = Float(1, 20)
          /\ Factor(ch, i) = FromInt(5)

\* a normalized value between 0 and 0.01: the floor is the divisor
C9_WitnessTiny ==
    /\ Curves # EMPTY
    /\ \E ch \in CHANNELS : \E i \in Points :
          /\ Gt(Normalized(ch, i), FromInt(0))
          /\ Lt(Normalized(ch, i), Hundredth)
          /\ ReferenceAt(ch, i) = Float(1, 20)
          /\ Factor(ch, i) = FromInt(5)

\* the baseline of a channel: the mean over the corner samples
Baseline(ch) ==
    LET b == calculate_baseline(proc)
    IN  CASE ch = "r" -> b[1] [] ch = "g" -> b[2] [] ch = "b" -> b[3]

\* C10: after perform_shadow_correction the corrected intensity of every
\* detected region and channel is max(0, raw - baseline): never negative, and
\* zero whenever the raw value does not exceed the baseline.
C10_ShadowCorrectionClamped ==
    WasCalled("perform_shadow_correction")
    => \A c \in DOMAIN proc.color_regions : \A ch \in CHANNELS :
          LET raw == FromInt(proc.color_regions[c].rgb[ch])
              wl == proc.color_regions[c].wavelength
              v == proc.corrected_intensities[wl][ch]
          IN  /\ wl \in DOMAIN proc.corrected_intensities
              /\ ~IsNaN(v)
              /\ Ge(v, FromInt(0))
              /\ IF Gt(raw, Baseline(ch))
                 THEN Add(v, Baseline(ch)) = raw
                 ELSE IsZero(v)

\* one channel below the baseline and clamped, another above it
C10_Witness ==
    /\ WasCalled("perform_shadow_correction")
    /\ \E c \in DOMAIN proc.color_regions : \E ch \in CHANNELS :
          /\ Lt(FromInt(proc.color_regions[c].rgb[ch]), Baseline(ch))
          /\ IsZero(proc.corrected_intensities[proc.color_regions[c].wavelength][ch])
    /\ \E c \in DOMAIN proc.color_regions : \E ch \in CHANNELS :
          /\ Gt(Baseline(ch), FromInt(0))
          /\ Gt(proc.corrected_intensities[proc.color_regions[c].wavelength][ch],
                FromInt(0))

\* the corners as bright as the page: every corrected intensity is zero
C10_WitnessAllZero ==
    /\ WasCalled("perform_shadow_correction")
    /\ \A wl \in DOMAIN proc.corrected_intensities : \A ch \in CHANNELS :
          IsZero(proc.corrected_intensities[wl][ch])

----------------------------------------------------------------------------
(* The public methods, called one by one *)

\* The methods of SpectralProcessor are public: a caller that holds a
\* processor may call any of them in any order, not only process().

\* the colours on the charts of the direct calls
ApiPresent ==
    {{}, {"red"}, {"red", "green", "blue"},
     {"red", "yellow", "green", "cyan"}, COLOR_NAMES}

ApiImageData ==
    { [kind |-> "bytes",
       decoded |-> << [width_height |-> d, present |-> s, clutter |-> "none",
                       exposure |-> "vivid", backdrop |-> "shadow"] >>] :
        d \in DIMENSIONS, s \in ApiPresent }
    \cup { [kind |-> "bytes", decoded |-> <<>>] }

InitApi ==
    /\ proc \in {__init__(d) : d \in ApiImageData}
    /\ Fresh

\* cv2.inRange(None, ...) and None[y:y+h, x:x+w]
cv2_error == <<"cv2.error", "inRange">>
TypeError_None == <<"'NoneType'", "object", "is", "not", "subscriptable">>

\* a method that returns without raising
Returned(r) == Return(r.p, r.ret)

\* the trace lists the calls of a process() run; a direct call leaves it
Direct(op, r) ==
    /\ Finish(op, [r EXCEPT !.p.trace = proc.trace])
    /\ UNCHANGED <<phase, force_analysis, solver_fault, calls, disk, server>>

ApiLoadImage == Direct("load_image", Returned(load_image(proc)))

ApiExtractColorRegions ==
    Direct("extract_color_regions",
           IF proc.hsv_image = None THEN Raise(proc, cv2_error)
           ELSE Returned(extract_color_regions(proc)))

ApiExtractBlackCorners ==
    Direct("extract_black_corners",
           IF proc.image = None THEN Raise(proc, TypeError_None)
           ELSE Returned(extract_black_corners(proc)))

ApiPerformShadowCorrection ==
    Direct("perform_shadow_correction", Returned(perform_shadow_correction(proc)))

\* reference_data of the direct fits: the default, or a caller's table
ApiReferences ==
    {EMPTY, [wl \in AllWavelengths |-> [r |-> FromInt(1), g |-> FromInt(1),
                                        b |-> FromInt(1)]]}

ApiFitCorrectionCurves(reference_data) ==
    Direct("fit_correction_curves",
           fit_correction_curves(proc, reference_data, FALSE))

\* np.polyval(poly_coeffs, wavelength), not evaluated
np_polyval(poly_coeffs, x) == [polyval |-> poly_coeffs, at |-> x]

NOT_FITTED == <<"Correction", "curves", "not", "fitted", "yet">>
KeyError_polynomial == <<"KeyError", "'polynomial'">>

\* variant: no check of the curves
not_fitted_unchecked(p) == FALSE

\* 'polynomial' not in self.correction_curves
not_fitted(p) == "polynomial" \notin DOMAIN p.correction_curves

apply_correction_to_value(p, wavelength, channel, value) ==
    IF not_fitted(p) THEN Raise(p, NOT_FITTED)
    ELSE IF "polynomial" \notin DOMAIN p.correction_curves
         THEN Raise(p, KeyError_polynomial)
         ELSE Return(p, [value |-> value,
                         times |-> np_polyval(p.correction_curves.polynomial[channel],
                                              wavelength)])

\* the arguments of the direct apply_correction_to_value calls
ApplyWavelengths == {460, 600}
ApplyValues == {Float(1, 2), FromInt(200)}

ApiApplyCorrection(wavelength, channel, value) ==
    Direct("apply_correction_to_value",
           apply_correction_to_value(proc, wavelength, channel, value))

NextApi ==
    \/ ApiLoadImage
    \/ ApiExtractColorRegions
    \/ ApiExtractBlackCorners
    \/ ApiPerformShadowCorrection
    \/ \E ref \in ApiReferences : ApiFitCorrectionCurves(ref)
    \/ \E wl \in ApplyWavelengths, ch \in {"r", "g", "b"}, v \in ApplyValues :
          ApiApplyCorrection(wl, ch, v)

SpecApi == InitApi /\ [][NextApi]_vars

\* C11: perform_shadow_correction called before both extract_color_regions
\* and extract_black_corners have produced output is a usage error: the call
\* signals an error instead of computing a baseline and intensities.
C11_EarlyShadowCorrectionRaises ==
    (/\ outcome.op = "perform_shadow_correction"
     /\ (proc.color_regions = EMPTY \/ proc.black_regions = EMPTY))
    => outcome.raised

\* the call that just returned or raised was apply_correction_to_value
AfterApply == outcome.op = "apply_correction_to_value"

\* C12: apply_correction_to_value on a processor without fitted curves
\* raises 'Correction curves not fitted yet' and returns no value; with
\* curves it returns value x polynomial(wavelength) of the channel's fitted
\* coefficients; in both cases it leaves every field of the processor as
\* it was.
C12_ApplyNeedsCurves ==
    [][AfterApply' =>
         /\ proc' = proc
         /\ IF "polynomial" \notin DOMAIN proc.correction_curves
            THEN /\ outcome'.raised
                 /\ outcome'.exc = NOT_FITTED
                 /\ outcome'.value = EMPTY
            ELSE /\ ~outcome'.raised
                 /\ \E wl \in ApplyWavelengths, ch \in {"r", "g", "b"},
                       v \in ApplyValues :
                       outcome'.value =
                         [value |-> v,
                          times |-> np_polyval(
                              proc.correction_curves.polynomial[ch], wl)]]_vars

\* a value corrected with the curves of a completed fit
C12_Witness ==
    /\ AfterApply /\ ~outcome.raised
    /\ proc.correction_curves # EMPTY
    /\ outcome.value.value = FromInt(200)

\* the call on a processor whose curves were never fitted
C12_WitnessUnfitted ==
    /\ AfterApply /\ outcome.raised
    /\ proc.correction_curves = EMPTY
    /\ proc.corrected_intensities # EMPTY

\* the call that just returned or raised was fit_correction_curves
AfterFitCall == outcome.op = "fit_correction_curves"

NumIntensities == Cardinality(DOMAIN proc.corrected_intensities)

\* C13: fit_correction_curves on corrected intensities of fewer than 4
\* wavelengths (0, 1, 2 or 3) raises and stores no correction curves; no
\* stored curve was fitted from fewer than 4 points.
C13_FitNeedsFourPoints ==
    /\ NumIntensities < 4 =>
          /\ proc.correction_curves = EMPTY
          /\ AfterFitCall => outcome.raised
    /\ proc.correction_curves # EMPTY =>
          Len(proc.correction_curves.data_points.wavelengths) >= 4

\* three wavelengths: the fit raises in the spline and stores nothing
C13_Witness ==
    /\ AfterFitCall /\ outcome.raised
    /\ NumIntensities = 3
    /\ proc.correction_curves = EMPTY

\* no wavelength at all: the first check raises
C13_WitnessNone ==
    /\ AfterFitCall /\ outcome.raised
    /\ NumIntensities = 0
    /\ outcome.exc = ValueError_first

NumRecords(dict) == Cardinality(DOMAIN dict)

\* C14: the six reference wavelengths are pairwise distinct; once
\* perform_shadow_correction has run there are as many raw and as many
\* corrected intensity records as detected regions; a process() run without
\* force_analysis on an image with all 6 colours ends in the full
\* calibration result with exactly 6 intensity records and 4 corner samples.
C14_OneRecordPerRegion ==
    /\ \A c1, c2 \in COLOR_NAMES :
          c1 # c2 => COLOR_WAVELENGTHS[c1] # COLOR_WAVELENGTHS[c2]
    /\ WasCalled("perform_shadow_correction") =>
          /\ NumRecords(proc.raw_intensities) = NumRegions
          /\ NumRecords(proc.corrected_intensities) = NumRegions
    /\ (AfterProcess /\ ~force_analysis /\ NumRegions = 6) =>
          /\ IsFullCalibration(Result)
          /\ NumRecords(Result.raw_intensities) = 6
          /\ NumRecords(Result.corrected_intensities) = 6
          /\ NumRecords(Result.black_corners) = 4
          /\ Result.statistics.num_black_corners = 4

\* all six colours detected and calibrated
C14_Witness ==
    /\ AfterProcess /\ ~force_analysis /\ NumRegions = 6
    /\ WasCalled("perform_shadow_correction")
    /\ NumRecords(proc.corrected_intensities) = 6
    /\ IsFullCalibration(Result)

\* five colours: five records
C14_WitnessFive ==
    /\ AfterProcess /\ WasCalled("perform_shadow_correction")
    /\ NumRegions = 5 /\ NumRecords(proc.raw_intensities) = 5

----------------------------------------------------------------------------
(* process() again on the same processor *)

\* processor.process(force_analysis=...) on a processor whose process()
\* has returned before; the fields hold what the earlier runs left.  The
\* trace starts anew: it lists the calls of the run in hand.
Reprocess(force) ==
    /\ phase = "processed"
    /\ Finish("process", process([proc EXCEPT !.trace = <<>>], force, FALSE))
    /\ force_analysis' = force
    /\ UNCHANGED <<phase, solver_fault, calls, disk, server>>

NextReuse ==
    \/ \E force \in BOOLEAN : Process(force, FALSE)
    \/ \E force \in BOOLEAN : Reprocess(force)

SpecReuse == Init /\ [][NextReuse]_vars

\* a result without its timestamp
WithoutTimestamp(result) ==
    [k \in (DOMAIN result) \ {"timestamp"} |-> result[k]]

\* process() with the same flag on a new processor for the same image_data
FreshRun == process(__init__(proc.image_data), force_analysis, FALSE)

\* C15: whatever runs a processor has been through, the result of process()
\* is, apart from the timestamp, the result a newly constructed processor
\* gives for the same image_data and force_analysis flag, and so are the
\* colour regions and, after a full calibration, the corner samples (hence
\* the baseline), the intensity records and the correction curves.
C15_RunsAgree ==
    AfterProcess =>
       /\ outcome.raised = FreshRun.raised
       /\ WithoutTimestamp(Result) = WithoutTimestamp(FreshRun.ret)
       /\ proc.color_regions = FreshRun.p.color_regions
       /\ IsFullCalibration(Result) =>
             /\ proc.black_regions = FreshRun.p.black_regions
             /\ calculate_baseline(proc) = calculate_baseline(FreshRun.p)
             /\ proc.raw_intensities = FreshRun.p.raw_intensities
             /\ proc.corrected_intensities = FreshRun.p.corrected_intensities
             /\ proc.correction_curves = FreshRun.p.correction_curves

\* a second run on one processor: an analysis-only result on a processor
\* that still holds the curves of its earlier full calibration
C15_Witness ==
    /\ AfterProcess /\ force_analysis
    /\ IsAnalysisOnly(Result)
    /\ proc.correction_curves # EMPTY
    /\ WithoutTimestamp(Result) = WithoutTimestamp(FreshRun.ret)

----------------------------------------------------------------------------
(* The server and the test harness *)

\* Bound on the calls in flight at once.
NumRequests == 2

\* a photo of a chart with patches of the given colours
ChartImage(present) ==
    [width_height |-> <<200, 100>>, present |-> present, clutter |-> "none",
     exposure |-> "vivid", backdrop |-> "shadow"]

\* What a client hands over: the entry (POST /process, POST /process-file,
\* or the command line of test_processor.py), the image sent (<<>> for
\* bytes that are no image) and the force_analysis the entry passes on.
ClientCalls ==
    { [via |-> "/process", upload |-> <<ChartImage(COLOR_NAMES)>>, force |-> f] :
        f \in BOOLEAN }
    \cup { [via |-> "/process", upload |-> <<ChartImage({"red", "green"})>>,
            force |-> FALSE],
           [via |-> "/process", upload |-> None, force |-> FALSE],
           [via |-> "/process-file", upload |-> <<ChartImage(COLOR_NAMES)>>,
            force |-> FALSE],
           [via |-> "/process-file", upload |-> None, force |-> FALSE],
           [via |-> "test_processor", upload |-> <<ChartImage(COLOR_NAMES)>>,
            force |-> FALSE] }

\* cv2.imencode('.jpg', image).tobytes(): the bytes of a JPEG that shows
\* what the image shows
cv2_imencode(image) == [kind |-> "bytes", decoded |-> image]

\* temp_path of process_file and image_path of test_processor: a str
FilePath == [kind |-> "str", decoded |-> <<>>]

\* the argument of SpectralProcessor(...) at each entry
ConstructorArgument(call) ==
    IF call.via = "/process" THEN cv2_imencode(call.upload) ELSE FilePath

DECODE_ERROR == <<"Failed", "to", "decode", "image">>

\* the 400 answer of process_image to bytes that are no image
DecodeResponse ==
    [status |-> 400, body |-> [success |-> FALSE, error |-> DECODE_ERROR]]

NoResponse == [status |-> 0, body |-> EMPTY]

\* return jsonify(result), or the answer of the except clause
jsonify(f) ==
    IF f.raised
    THEN [status |-> 500, body |-> [success |-> FALSE, error |-> f.exc]]
    ELSE [status |-> 200, body |-> f.ret]

\* variant: one module-level processor serves every call
OwnerShared(r) == 1

\* processor = SpectralProcessor(...): a local of the handler, so each
\* call has an instance of its own
Owner(r) == r

Instance(r) == server.instances[Owner(r)]

\* call r moves on: its next position, the last return value it holds,
\* its response, and its processor
Advance(r, pc, ret, response, inst) ==
    /\ server' =
          [requests |-> [server.requests EXCEPT
                            ![r] = [call |-> @.call, pc |-> pc, ret |-> ret,
                                    response |-> response]],
           instances |-> SetItem(server.instances, Owner(r), inst)]
    /\ UNCHANGED <<proc, phase, force_analysis, solver_fault, outcome, calls, disk>>

\* a call arrives
ReceiveCall(call) ==
    /\ Len(server.requests) < NumRequests
    /\ server' = [server EXCEPT !.requests =
                     Append(@, [call |-> call, pc |-> "received", ret |-> FALSE,
                                response |-> NoResponse])]
    /\ UNCHANGED <<proc, phase, force_analysis, solver_fault, outcome, calls, disk>>

\* process_image answers 400 to bytes that cv2.imdecode rejects
RejectUpload(r) ==
    /\ r \in DOMAIN server.requests
    /\ server.requests[r].pc = "received"
    /\ server.requests[r].call.via = "/process"
    /\ server.requests[r].call.upload = None
    /\ server' = [server EXCEPT !.requests[r].pc = "done",
                                !.requests[r].response = DecodeResponse]
    /\ UNCHANGED <<proc, phase, force_analysis, solver_fault, outcome, calls, disk>>

\* processor = SpectralProcessor(image_bytes_processed) or (temp_path)
ConstructProcessor(r) ==
    /\ r \in DOMAIN server.requests
    /\ server.requests[r].pc = "received"
    /\ ~(server.requests[r].call.via = "/process"
         /\ server.requests[r].call.upload = None)
    /\ Advance(r, "constructed", FALSE, NoResponse,
               __init__(ConstructorArgument(server.requests[r].call)))

\* process() as far as load_image
LoadDone(r, l) == Advance(r, "loaded", l.ret, NoResponse, l.p)

StepLoad(r) ==
    /\ r \in DOMAIN server.requests
    /\ server.requests[r].pc = "constructed"
    /\ LoadDone(r, load_image(Called(Instance(r), "process")))

\* process() returns to the handler, which answers
Respond(r, f) == Advance(r, "done", FALSE, jsonify(f), f.p)

\* process() as far as extract_color_regions
ExtractDone(r, e) == Advance(r, "extracted", e.ret, NoResponse, e.p)

StepExtract(r) ==
    /\ r \in DOMAIN server.requests
    /\ server.requests[r].pc = "loaded"
    /\ IF ~server.requests[r].ret
       THEN Respond(r, AfterLoad([p |-> Instance(r), ret |-> FALSE],
                                 server.requests[r].call.force, FALSE))
       ELSE ExtractDone(r, extract_color_regions(Instance(r)))

\* the rest of process()
StepCalibrate(r) ==
    /\ r \in DOMAIN server.requests
    /\ server.requests[r].pc = "extracted"
    /\ Respond(r, AfterRegions([p |-> Instance(r), ret |-> server.requests[r].ret],
                               server.requests[r].call.force, FALSE))

InitServer ==
    /\ proc = __init__(FilePath)
    /\ Fresh

NextServer ==
    \/ \E call \in ClientCalls : ReceiveCall(call)
    \/ \E r \in 1..NumRequests : RejectUpload(r)
    \/ \E r \in 1..NumRequests : ConstructProcessor(r)
    \/ \E r \in 1..NumRequests : StepLoad(r)
    \/ \E r \in 1..NumRequests : StepExtract(r)
    \/ \E r \in 1..NumRequests : StepCalibrate(r)

SpecServer == InitServer /\ [][NextServer]_vars

\* the answer to a call that is handled with no other call in the server
Alone(call) ==
    IF call.via = "/process" /\ call.upload = None THEN DecodeResponse
    ELSE jsonify(process(__init__(ConstructorArgument(call)), call.force, FALSE))

\* C16: with several calls in the server at once, each on a processor of
\* its own, the answer to every call is, under every interleaving of the
\* handlers, the answer the call gets when it is handled alone; no two calls
\* use the same processor.
C16_CallsDoNotInterfere ==
    /\ \A r1, r2 \in DOMAIN server.requests : r1 # r2 => Owner(r1) # Owner(r2)
    /\ \A r \in DOMAIN server.requests :
          server.requests[r].pc = "done" =>
             server.requests[r].response = Alone(server.requests[r].call)

\* the second call was answered with a full calibration while the first,
\* for another image, is still in its pipeline
C16_Witness ==
    /\ Len(server.requests) = 2
    /\ server.requests[1].pc = "extracted"
    /\ server.requests[2].pc = "done"
    /\ server.requests[1].call.upload # server.requests[2].call.upload
    /\ server.requests[2].response.status = 200
    /\ IsFullCalibration(server.requests[2].response.body)

\* C19: an image that decodes is processed whichever way it is supplied, as
\* base64 to /process, as an upload to /process-file or as a file path to the
\* test harness: the processor loads it and the answer is the result of the
\* pipeline for that image, not a load failure.
C19_EveryEntryProcesses ==
    \A r \in DOMAIN server.requests :
       (server.requests[r].pc = "done" /\ server.requests[r].call.upload # None)
       => /\ Instance(r).image = server.requests[r].call.upload
          /\ server.requests[r].response.status = 200
          /\ server.requests[r].response.body =
                process(__init__(cv2_imencode(server.requests[r].call.upload)),
                        server.requests[r].call.force, FALSE).ret

----------------------------------------------------------------------------
(* save_calibration *)

\* Bound on the save_calibration calls; each reads a later clock value.
MaxSaves == 2

\* the default of the filename parameter, and a name a caller passes
DEFAULT_FILENAME == "calibration_data.json"
Filenames == {DEFAULT_FILENAME, "second_run.json"}

\* the dict that save_calibration dumps
CalibrationRecord(p, now) ==
    [timestamp |-> now,
     image_size |-> [width |-> p.width, height |-> p.height],
     color_regions |-> p.color_regions,
     black_regions |-> p.black_regions,
     raw_intensities |-> StrKeys(p.raw_intensities),
     corrected_intensities |-> StrKeys(p.corrected_intensities),
     correction_curves |-> p.correction_curves,
     baseline |-> calculate_baseline(p)]

\* open(filename, 'w') and json.dump: the file holds the new record alone
save_calibration(p, filename, d) ==
    [now |-> d.now + 1,
     files |-> SetItem(d.files, filename, CalibrationRecord(p, d.now + 1))]

SaveCalibration(filename) ==
    /\ disk.now < MaxSaves
    /\ disk' = save_calibration(proc, filename, disk)
    /\ outcome' = [op |-> "save_calibration", raised |-> FALSE, exc |-> <<>>,
                   value |-> EMPTY]
    /\ UNCHANGED <<proc, phase, force_analysis, solver_fault, calls, server>>

NextStore ==
    \/ \E force \in BOOLEAN : Process(force, FALSE)
    \/ \E filename \in Filenames : SaveCalibration(filename)

SpecStore == InitApi /\ [][NextStore]_vars

\* C17: a calibration record, once written by save_calibration, is never
\* changed: after any later save every earlier record is still there with
\* the content it was written with.
C17_RecordsNeverChange ==
    [][\A f \in DOMAIN disk.files :
          /\ f \in DOMAIN disk'.files
          /\ disk'.files[f] = disk.files[f]]_vars

----------------------------------------------------------------------------
(* Corner extraction over image sizes *)

\* Bound on the width and on the height of the images, in pixels.
MaxSide == 30

\* images of every size from 1 x 1 to MaxSide x MaxSide, without patches
SizedImageData ==
    { [kind |-> "bytes",
       decoded |-> << [width_height |-> <<w, h>>, present |-> {},
                       clutter |-> "none", exposure |-> "vivid",
                       backdrop |-> "shadow"] >>] :
        w \in 1..MaxSide, h \in 1..MaxSide }

InitCorners ==
    /\ proc \in {__init__(d) : d \in SizedImageData}
    /\ Fresh

NextCorners ==
    \/ ApiLoadImage
    \/ ApiExtractBlackCorners

SpecCorners == InitCorners /\ [][NextCorners]_vars

\* the call that just returned or raised was extract_black_corners
AfterCornersCall == outcome.op = "extract_black_corners"

Position(k) == proc.black_regions[k].position

\* C18: extract_black_corners on an image of nonzero width and height,
\* also one narrower or lower than 10 pixels, does not fail and leaves
\* exactly four corner samples, each the mean colour of a rectangle that is
\* not empty, hence a defined colour.
C18_FourDefinedSamples ==
    (AfterCornersCall /\ proc.width > 0 /\ proc.height > 0)
    => /\ ~outcome.raised
       /\ DOMAIN proc.black_regions = CORNER_NAMES
       /\ Cardinality(CORNER_NAMES) = 4
       /\ \A k \in CORNER_NAMES :
             /\ Position(k).width > 0 /\ Position(k).height > 0
             /\ ~IsNaN(proc.black_regions[k].rgb.r)
             /\ ~IsNaN(proc.black_regions[k].rgb.g)
             /\ ~IsNaN(proc.black_regions[k].rgb.b)

\* two rectangles share no pixel
Apart(a, b) ==
    \/ a.width = 0 \/ a.height = 0 \/ b.width = 0 \/ b.height = 0
    \/ a.x + a.width <= b.x \/ b.x + b.width <= a.x
    \/ a.y + a.height <= b.y \/ b.y + b.height <= a.y

\* C20: for every image width and height the four corner rectangles have
\* size (width div 10) x (height div 10), sit flush in the four corners of
\* the image, lie inside the image and are pairwise disjoint.
C20_CornerRectangles ==
    (AfterCornersCall /\ ~outcome.raised) =>
       /\ DOMAIN proc.black_regions = CORNER_NAMES
       /\ \A k \in CORNER_NAMES :
             /\ Position(k).width = proc.width \div 10
             /\ Position(k).height = proc.height \div 10
             /\ Position(k).x >= 0 /\ Position(k).y >= 0
             /\ Position(k).x + Position(k).width <= proc.width
             /\ Position(k).y + Position(k).height <= proc.height
       /\ Position("top_left").x = 0 /\ Position("top_left").y = 0
       /\ Position("top_right").x + Position("top_right").width = proc.width
       /\ Position("top_right").y = 0
       /\ Position("bottom_left").x = 0
       /\ Position("bottom_left").y + Position("bottom_left").height = proc.height
       /\ Position("bottom_right").x + Position("bottom_right").width = proc.width
       /\ Position("bottom_right").y + Position("bottom_right").height = proc.height
       /\ \A k1, k2 \in CORNER_NAMES :
             k1 # k2 => Apart(Position(k1), Position(k2))

\* a 30 x 20 image: four rectangles of 3 x 2 pixels
C20_Witness ==
    /\ AfterCornersCall /\ ~outcome.raised
    /\ proc.width = 30 /\ proc.height = 20
    /\ Position("bottom_right") = [x |-> 27, y |-> 18, width |-> 3, height |-> 2]

\* an image narrower than 10 pixels: rectangles without pixels
C20_WitnessNarrow ==
    /\ AfterCornersCall /\ ~outcome.raised
    /\ proc.width = 9 /\ proc.height = 25
    /\ Position("top_right") = [x |-> 9, y |-> 0, width |-> 0, height |-> 2]

----------------------------------------------------------------------------
(* The built-in reference and the forced analysis *)

\* the red response the specification gives for a wavelength, in tenths
\* and as a number
RedStepTenths(wl) ==
    CASE wl >= 580             -> 10
      [] wl >= 530 /\ wl < 580 -> 3
      [] wl >= 490 /\ wl < 530 -> 1
      [] wl < 490              -> 2

RedStep(wl) == Float(RedStepTenths(wl), 10)

\* 0 <= x <= 1
InUnitInterval(x) == Ge(x, FromInt(0)) /\ Le(x, FromInt(1))

\* the reference table stored with the curves of the last fit
StoredReference == proc.correction_curves.reference_values

====
